---------------------------- MODULE Spec2Model ----------------------------
(***************************************************************************)
(* Avito Price Analyzer (src/main.py): the text helpers, the listing       *)
(* extractor, the selector, the per-row driver process_excel and the       *)
(* Tk application that runs it in a worker thread.                         *)
(*                                                                         *)
(* Strings are sequences of characters; a character is a one-element name  *)
(* ("a", "7", "bs" for the backslash, "nbsp" for U+00A0, "rub" for the     *)
(* rouble sign, "cy_ge" for the Cyrillic letter ge, ...).                  *)
(***************************************************************************)
EXTENDS Integers, Sequences, FiniteSets, TLC

\* An optional value is a sequence of at most one element.
None == <<>>

Some(x) == <<x>>

-----------------------------------------------------------------------------
(* Characters                                                              *)

Digits == {"0", "1", "2", "3", "4", "5", "6", "7", "8", "9"}

LatinLower == {"a", "b", "c", "d", "e", "f", "g", "h", "i", "j", "k", "l", "m",
               "n", "o", "p", "q", "r", "s", "t", "u", "v", "w", "x", "y", "z"}

LatinUpper == {"A", "B", "D", "G", "I", "P", "S", "T"}

\* Cyrillic letters of the range U+0430..U+044F that the model's texts use.
CyrLower == {"cy_a", "cy_be", "cy_ve", "cy_ge", "cy_ie", "cy_i", "cy_el",
             "cy_en", "cy_er", "cy_te", "cy_che", "cy_yeru", "cy_shorti"}

CyrUpper == {"CY_GE", "CY_BE", "CY_TE"}

CyrIo == "cy_io"

Whitespace == {" ", "tab", "nbsp"}

DigitValue(c) ==
  CASE c = "0" -> 0 [] c = "1" -> 1 [] c = "2" -> 2 [] c = "3" -> 3
    [] c = "4" -> 4 [] c = "5" -> 5 [] c = "6" -> 6 [] c = "7" -> 7
    [] c = "8" -> 8 [] c = "9" -> 9

\* str.lower() on one character
LowerChar(c) ==
  CASE c = "A" -> "a" [] c = "B" -> "b" [] c = "D" -> "d" [] c = "G" -> "g"
    [] c = "I" -> "i" [] c = "P" -> "p" [] c = "S" -> "s" [] c = "T" -> "t"
    [] c = "CY_GE" -> "cy_ge" [] c = "CY_BE" -> "cy_be" [] c = "CY_TE" -> "cy_te"
    [] OTHER -> c

-----------------------------------------------------------------------------
(* Sequence helpers standing for Python's str methods                      *)

Drop(s, n) == SubSeq(s, n + 1, Len(s))

Take(s, n) == SubSeq(s, 1, IF n < Len(s) THEN n ELSE Len(s))

\* s.startswith(p)
StartsWith(s, p) == Len(s) >= Len(p) /\ SubSeq(s, 1, Len(p)) = p

\* p in s
Contains(s, p) ==
  \E i \in 1..(Len(s) - Len(p) + 1) : SubSeq(s, i, i + Len(p) - 1) = p

\* s.lower()
Lower(s) == [i \in 1..Len(s) |-> LowerChar(s[i])]

\* s.replace(old, new), old non-empty: leftmost, non-overlapping
RECURSIVE Replace(_, _, _)
Replace(s, old, new) ==
  IF s = <<>> THEN <<>>
  ELSE IF StartsWith(s, old) THEN new \o Replace(Drop(s, Len(old)), old, new)
  ELSE <<Head(s)>> \o Replace(Tail(s), old, new)

\* the length of the longest prefix of s made of characters of set cs
RECURSIVE Span(_, _)
Span(s, cs) == IF s # <<>> /\ Head(s) \in cs THEN 1 + Span(Tail(s), cs) ELSE 0

\* s.strip()
RECURSIVE LStrip(_)
LStrip(s) == IF s # <<>> /\ Head(s) \in Whitespace THEN LStrip(Tail(s)) ELSE s

RECURSIVE RStrip(_)
RStrip(s) ==
  IF s # <<>> /\ s[Len(s)] \in Whitespace THEN RStrip(SubSeq(s, 1, Len(s) - 1)) ELSE s

Strip(s) == RStrip(LStrip(s))

\* "".join(parts)
RECURSIVE Join(_)
Join(parts) == IF parts = <<>> THEN <<>> ELSE Head(parts) \o Join(Tail(parts))

\* the elements of xs whose flag in keep is set, in order
RECURSIVE SelectSeq2(_, _)
SelectSeq2(xs, keep) ==
  IF xs = <<>> THEN <<>>
  ELSE (IF Head(keep) THEN <<Head(xs)>> ELSE <<>>) \o SelectSeq2(Tail(xs), Tail(keep))

\* the order-preserving removal of duplicates
RECURSIVE Dedup(_, _)
Dedup(xs, seen) ==
  IF xs = <<>> THEN <<>>
  ELSE (IF Head(xs) \in seen THEN <<>> ELSE <<Head(xs)>>)
         \o Dedup(Tail(xs), seen \cup {Head(xs)})

-----------------------------------------------------------------------------
(* normalize_text                                                          *)

\* whether the word u stands in s at position i
WordAt(s, i, u) == i + Len(u) - 1 <= Len(s) /\ SubSeq(s, i, i + Len(u) - 1) = u

\* The match of  (\\d+)\\s*(XX|gb)  at the start of s, s[1] being a backslash
\* followed by nd >= 1 "d", a backslash and ns "s": <<the length of the match,
\* the length of its group 1>>, or <<0, 0>> when no unit word follows.
CapacityUnit(s, nd, ns, unitA, unitB) ==
  IF WordAt(s, nd + ns + 3, unitA) THEN <<nd + ns + 2 + Len(unitA), 1 + nd>>
  ELSE IF WordAt(s, nd + ns + 3, unitB) THEN <<nd + ns + 2 + Len(unitB), 1 + nd>>
  ELSE <<0, 0>>

\* the same, after the nd "d": a backslash and any number of "s" must follow
CapacityTail(s, nd, unitA, unitB) ==
  IF nd >= 1 /\ Len(s) >= nd + 2 /\ s[nd + 2] = "bs"
  THEN CapacityUnit(s, nd, Span(Drop(s, nd + 2), {"s"}), unitA, unitB)
  ELSE <<0, 0>>

\* The pattern is a literal backslash, one or more "d", a literal backslash,
\* zero or more "s", then one of the two unit words.
CapacityMatch(s, unitA, unitB) ==
  IF s = <<>> \/ Head(s) # "bs" THEN <<0, 0>>
  ELSE CapacityTail(s, Span(Tail(s), {"d"}), unitA, unitB)

\* re.sub(r"(\\d+)\\s*(XX|gb)", lambda m: f"{m.group(1)}gb", s)
RECURSIVE SubCapacity(_, _, _, _)
RECURSIVE SubCapacityAt(_, _, _, _, _)
SubCapacityAt(s, m, unitA, unitB, canon) ==
  IF m[1] > 0
  THEN Take(s, m[2]) \o canon \o SubCapacity(Drop(s, m[1]), unitA, unitB, canon)
  ELSE <<Head(s)>> \o SubCapacity(Tail(s), unitA, unitB, canon)

SubCapacity(s, unitA, unitB, canon) ==
  IF s = <<>> THEN <<>>
  ELSE SubCapacityAt(s, CapacityMatch(s, unitA, unitB), unitA, unitB, canon)

\* The class  [a-z0-9CYRILLIC\\s\\-]  under re.IGNORECASE: the letters of both
\* scripts, the digits, the backslash and the hyphen.
KeptChars ==
  LatinLower \cup LatinUpper \cup Digits \cup CyrLower \cup CyrUpper
    \cup {CyrIo, "bs", "-"}

CharsOf(s) == {s[i] : i \in 1..Len(s)}

\* re.sub(r"[^...]+", " ", s): every maximal run outside the class becomes " "
RECURSIVE SubOutside(_)
SubOutside(s) ==
  IF s = <<>> THEN <<>>
  ELSE IF Head(s) \in KeptChars THEN <<Head(s)>> \o SubOutside(Tail(s))
  ELSE <<" ">> \o SubOutside(Drop(s, Span(s, CharsOf(s) \ KeptChars)))

\* re.sub(r"\\s+", " ", s): a backslash followed by one or more "s" becomes " "
RECURSIVE SubBackslashS(_)
SubBackslashS(s) ==
  IF s = <<>> THEN <<>>
  ELSE IF Head(s) = "bs" /\ Len(s) >= 2 /\ s[2] = "s"
  THEN <<" ">> \o SubBackslashS(Drop(s, 1 + Span(Tail(s), {"s"})))
  ELSE <<Head(s)>> \o SubBackslashS(Tail(s))

Yo == <<"cy_che", "cy_io", "cy_er">>

Ye == <<"cy_che", "cy_ie", "cy_er">>

normalize_text(s) ==
  Strip(SubBackslashS(SubOutside(
    SubCapacity(SubCapacity(Replace(Lower(s), Yo, Ye),
                            <<"cy_ge", "cy_be">>, <<"g", "b">>, <<"g", "b">>),
                <<"cy_te", "cy_be">>, <<"t", "b">>, <<"t", "b">>))))

-----------------------------------------------------------------------------
(* extract_tokens                                                          *)

\* STOPWORDS_RU, as far as the model's alphabet spells them
STOPWORDS_RU ==
  { <<"cy_i">>, <<"cy_a">>, <<"cy_ve">>,
    <<"cy_ge", "cy_be">>, <<"cy_te", "cy_be">>, <<"g", "b">>, <<"t", "b">>,
    <<"cy_be", "cy_ie", "cy_el", "cy_yeru", "cy_shorti">>,
    <<"cy_en", "cy_ie", "cy_te">> }

\* The class  [a-z0-9CYRILLIC\\-]  under re.IGNORECASE
TokenChars == KeptChars

\* re.findall(r"[...]+", s): the maximal runs of characters of cs, in order
RECURSIVE FindRuns(_, _)
RECURSIVE FindRunsAt(_, _, _)
FindRunsAt(s, n, cs) ==
  IF n = 0 THEN FindRuns(Tail(s), cs) ELSE <<Take(s, n)>> \o FindRuns(Drop(s, n), cs)

FindRuns(s, cs) == IF s = <<>> THEN <<>> ELSE FindRunsAt(s, Span(s, cs), cs)

\* the first loop without its length test
FilterTokensStopOnly(raw) ==
  SelectSeq2(raw, [i \in 1..Len(raw) |-> raw[i] \notin STOPWORDS_RU])

\* the stop-word and length filter of the first loop
FilterTokens(raw) ==
  SelectSeq2(raw, [i \in 1..Len(raw) |-> ~(raw[i] \in STOPWORDS_RU \/ Len(raw[i]) <= 1)])

extract_tokens(brand, name) ==
  Dedup(FilterTokens(FindRuns(normalize_text(brand \o <<" ">> \o name), TokenChars)), {})

-----------------------------------------------------------------------------
(* score_listing_match, choose_relevant                                    *)

MAX_RESULTS_PER_QUERY == 20

\* the threshold 0.5 as the fraction ThresholdNum / ThresholdDen
ThresholdNum == 1

ThresholdDen == 2

Hits(lt, toks) == Cardinality({i \in 1..Len(toks) : Contains(lt, toks[i])})

\* score_listing_match that looks for the tokens in the title as it is
score_listing_match_raw(listing_title, required_tokens) ==
  IF required_tokens = <<>> THEN <<0, 1>>
  ELSE <<Hits(listing_title, required_tokens), Len(required_tokens)>>

\* the score hits / len(required_tokens) as the fraction <<hits, len>>; 0.0 is <<0, 1>>
score_listing_match(listing_title, required_tokens) ==
  IF required_tokens = <<>> THEN <<0, 1>>
  ELSE <<Hits(normalize_text(listing_title), required_tokens), Len(required_tokens)>>

\* a >= b for fractions with positive denominators
FracGeq(a, b) == a[1] * b[2] >= b[1] * a[2]

\* the truth value of li.price_rub: None and 0 are false
Truthy(price) == price # None /\ price[1] # 0

\* a > b for fractions with positive denominators
FracGt(a, b) == a[1] * b[2] > b[1] * a[2]

\* InsertByScore that puts x before the elements of its own score
RECURSIVE InsertByScoreBeforeTies(_, _)
InsertByScoreBeforeTies(sorted, x) ==
  IF sorted = <<>> THEN <<x>>
  ELSE IF FracGt(Head(sorted)[1], x[1])
  THEN <<Head(sorted)>> \o InsertByScoreBeforeTies(Tail(sorted), x)
  ELSE <<x>> \o sorted

\* list.sort(key=score, reverse=True): stable, by non-increasing score.
\* x goes after every element whose score is >= its own.
RECURSIVE InsertByScore(_, _)
InsertByScore(sorted, x) ==
  IF sorted = <<>> THEN <<x>>
  ELSE IF FracGeq(Head(sorted)[1], x[1]) THEN <<Head(sorted)>> \o InsertByScore(Tail(sorted), x)
  ELSE <<x>> \o sorted

RECURSIVE SortByScore(_)
SortByScore(xs) ==
  IF xs = <<>> THEN <<>>
  ELSE InsertByScore(SortByScore(SubSeq(xs, 1, Len(xs) - 1)), xs[Len(xs)])

\* [... for li in listings if li.price_rub]
Priced(listings) ==
  SelectSeq2(listings, [i \in 1..Len(listings) |-> Truthy(listings[i].price_rub)])

\* [(score_listing_match(li.title, required_tokens), li) ...]
Scored(priced, required_tokens) ==
  [i \in 1..Len(priced) |->
     <<score_listing_match(priced[i].title, required_tokens), priced[i]>>]

\* [li for s, li in scored if s >= 0.5]
Filtered(sorted) ==
  SelectSeq2([i \in 1..Len(sorted) |-> sorted[i][2]],
             [i \in 1..Len(sorted) |-> FracGeq(sorted[i][1], <<ThresholdNum, ThresholdDen>>)])

choose_relevant(listings, required_tokens) ==
  Take(Filtered(SortByScore(Scored(Priced(listings), required_tokens))), MAX_RESULTS_PER_QUERY)

-----------------------------------------------------------------------------
(* fetch_html                                                              *)

\* A response of session.get: exc is a raised requests.RequestException
\* (timeout, transport error); has_html is  "<html" in resp.text.lower();
\* doc is the parsed content of resp.text.  The result is the document or None.
fetch_html(resp) ==
  IF resp.exc THEN None
  ELSE IF resp.status_code = 200 /\ resp.has_html THEN Some(resp.doc)
  ELSE None

-----------------------------------------------------------------------------
(* parse_listings_from_html                                                *)
(*                                                                         *)
(* A document is what the selectors see of it: by_marker, by_class and     *)
(* by_article are the nodes matched by  [data-marker="item"],              *)
(* div[class*="item"]  and  article ; anchors are the a[href] elements of  *)
(* the whole document; bot says that the visible text holds an             *)
(* anti-automation phrase.  A node is  [a, marked, text] : a is the anchor *)
(* chosen by extract_title_and_url's three lookups (None if none), with    *)
(* its text and its optional href; marked the stripped texts of the        *)
(* elements found by the four price selectors (None where select_one finds *)
(* nothing); text the node's whole text.                                   *)
(*                                                                         *)
(* A call that can raise returns [raised, val].                            *)

MaxListings == 50

BaseUrl == <<"https://m.avito.ru">>

Http == <<"h", "t", "t", "p">>

Returns(v) == [raised |-> FALSE, val |-> v]

Raises == [raised |-> TRUE, val |-> <<>>]

RECURSIVE FirstMarked(_)
FirstMarked(marked) ==
  IF marked = <<>> THEN None
  ELSE IF Head(marked) # None /\ Head(marked)[1] # <<>> THEN Head(marked)
  ELSE FirstMarked(Tail(marked))

\* the optional price text of a candidate
extract_price_text(node) ==
  IF FirstMarked(node.marked) # None THEN FirstMarked(node.marked)
  ELSE IF Contains(node.text, <<"rub">>) THEN Some(node.text)
  ELSE None

\* the optional url of an optional href
UrlOf(href, base_url) ==
  IF href = None \/ href[1] = <<>> THEN None
  ELSE IF StartsWith(href[1], Http) THEN href
  ELSE IF StartsWith(href[1], <<"/">>) THEN Some(BaseUrl \o href[1])
  ELSE Some(base_url \o <<"/">> \o href[1])

\* <<title, url>>, both optional
extract_title_and_url(node, base_url) ==
  IF node.a = None THEN <<None, None>>
  ELSE <<IF node.a[1].text = <<>> THEN None ELSE Some(node.a[1].text),
         UrlOf(node.a[1].href, base_url)>>

\* re.findall(r"\\d+", s): the pattern is a literal backslash followed by one
\* or more "d"
RECURSIVE FindDigits(_)
FindDigits(s) ==
  IF s = <<>> THEN <<>>
  ELSE IF Head(s) = "bs" /\ Len(s) >= 2 /\ s[2] = "d"
  THEN <<Take(s, 1 + Span(Tail(s), {"d"}))>> \o FindDigits(Drop(s, 1 + Span(Tail(s), {"d"})))
  ELSE FindDigits(Tail(s))

RECURSIVE DecimalValue(_)
DecimalValue(s) ==
  IF s = <<>> THEN 0
  ELSE 10 * DecimalValue(SubSeq(s, 1, Len(s) - 1)) + DigitValue(s[Len(s)])

\* int(s) for a string without sign, blanks or underscores: raises ValueError
\* unless s is a non-empty run of digits
ParseInt(s) ==
  IF s # <<>> /\ \A i \in 1..Len(s) : s[i] \in Digits THEN Returns(Some(DecimalValue(s)))
  ELSE Raises

\* price_val of the found digit runs
PriceOfDigits(digits) == IF digits = <<>> THEN Returns(None) ELSE ParseInt(Join(digits))

\* lines 212-216: the optional price of a candidate; raises when int() does
PriceOf(price_text) ==
  IF price_text = None \/ price_text[1] = <<>> THEN Returns(None)
  ELSE PriceOfDigits(FindDigits(Replace(price_text[1], <<"bs", "x", "a", "0">>, <<" ">>)))

Listing(title, url, price_rub) == [title |-> title, url |-> url, price_rub |-> price_rub]

\* the listing of one candidate put before those of the later ones
ConsListing(tu, price, rest) ==
  IF price.raised \/ rest.raised THEN Raises
  ELSE Returns(<<Listing(tu[1][1], tu[2][1], price.val)>> \o rest.val)

\* the loop over the candidates: raises when a candidate's price does
RECURSIVE ListingsOfNodes(_, _)
RECURSIVE ListingsOfNode(_, _, _)
ListingsOfNode(nodes, tu, base_url) ==
  IF tu[1] = None \/ tu[2] = None THEN ListingsOfNodes(Tail(nodes), base_url)
  ELSE ConsListing(tu, PriceOf(extract_price_text(Head(nodes))),
                   ListingsOfNodes(Tail(nodes), base_url))

ListingsOfNodes(nodes, base_url) ==
  IF nodes = <<>> THEN Returns(<<>>)
  ELSE ListingsOfNode(nodes, extract_title_and_url(Head(nodes), base_url), base_url)

\* the url of an anchor of the fallback
AnchorUrl(href) ==
  IF StartsWith(href, Http) THEN href
  ELSE BaseUrl \o (IF StartsWith(href, <<"/">>) THEN href ELSE <<"/">> \o href)

\* the fallback over all anchors of the document
RECURSIVE ListingsOfAnchors(_)
ListingsOfAnchors(anchors) ==
  IF anchors = <<>> THEN <<>>
  ELSE (IF /\ Head(anchors).text # <<>>
           /\ Len(Head(anchors).text) > 3
           /\ Contains(Head(anchors).href, <<"/", "i", "t", "e", "m">>)
        THEN <<Listing(Head(anchors).text, AnchorUrl(Head(anchors).href), None)>>
        ELSE <<>>) \o ListingsOfAnchors(Tail(anchors))

\* lines 219-230, given the listings of the candidates
WithFallback(html, listings) ==
  IF listings.raised THEN Raises
  ELSE IF listings.val = <<>>
  THEN Returns(Take(ListingsOfAnchors(html.anchors), MaxListings))
  ELSE Returns(Take(listings.val, MaxListings))

parse_listings_from_html(html, base_url) ==
  WithFallback(html,
    ListingsOfNodes(Dedup(html.by_marker \o html.by_class \o html.by_article, {}), base_url))

-----------------------------------------------------------------------------
(* process_excel: the cost cell                                            *)
(*                                                                         *)
(* A cell is None (NaN, an empty cell) or Some(text), text being str(x).   *)
(* A float is the fraction <<num, den>> with den a power of ten; NaN is    *)
(* None.                                                                   *)

RECURSIVE RemoveOutside(_, _)
RemoveOutside(s, cs) ==
  IF s = <<>> THEN <<>>
  ELSE (IF Head(s) \in cs THEN <<Head(s)>> ELSE <<>>) \o RemoveOutside(Tail(s), cs)

RECURSIVE Pow10(_)
Pow10(n) == IF n = 0 THEN 1 ELSE 10 * Pow10(n - 1)

\* the value of the digits ipart "." fpart as a fraction
Decimal(ipart, fpart) ==
  <<DecimalValue(ipart) * Pow10(Len(fpart)) + DecimalValue(fpart), Pow10(Len(fpart))>>

\* float(s) for unsigned s over the digits, "." and the backslash, whose
\* first ni characters are its leading digits
ParseUnsignedAt(s, ni) ==
  IF ni = Len(s) THEN (IF ni >= 1 THEN Some(Decimal(s, <<>>)) ELSE None)
  ELSE IF s[ni + 1] = "." /\ Span(Drop(s, ni + 1), Digits) = Len(s) - ni - 1 /\ Len(s) >= 2
  THEN Some(Decimal(Take(s, ni), Drop(s, ni + 1)))
  ELSE None

ParseUnsigned(s) == ParseUnsignedAt(s, Span(s, Digits))

Negate(f) == IF f = None THEN None ELSE Some(<<0 - f[1][1], f[1][2]>>)

\* float(s) for s over the digits, ".", "-" and the backslash: the optional
\* value, None when float() raises ValueError
ParseFloat(s) ==
  IF s # <<>> /\ Head(s) = "-" THEN Negate(ParseUnsigned(Tail(s))) ELSE ParseUnsigned(s)

\* float(s) if s else math.nan
FloatOrNan(s) == IF s = <<>> THEN None ELSE ParseFloat(s)

\* the optional float of a cell; never raises
to_float(x) ==
  IF x = None THEN None
  ELSE FloatOrNan(RemoveOutside(
         Replace(Replace(Replace(x[1], <<" ">>, <<>>), <<"bs", "x", "a", "0">>, <<>>),
                 <<",">>, <<".">>),
         Digits \cup {".", "bs", "-"}))

\* str(cell) if not pd.isna(cell) else ""
CellText(x) == IF x = None THEN <<>> ELSE x[1]

-----------------------------------------------------------------------------
(* process_excel: lines 336-347, the aggregation of the selected listings  *)
(*                                                                         *)
(* avgPrice is in hundredths; markupPercent is the fraction <<num, den>>.  *)

RowResult(avg, markup, url) == [avgPrice |-> avg, markupPercent |-> markup, cheapestUrl |-> url]

\* df.loc[idx, 3] = None; df.loc[idx, 4] = None; df.loc[idx, 5] = None
AllAbsent == RowResult(None, None, None)

RECURSIVE SumSeq(_)
SumSeq(xs) == IF xs = <<>> THEN 0 ELSE Head(xs) + SumSeq(Tail(xs))

\* round(num / den, 2) in hundredths, num >= 0, den > 0: ties go to the even
RoundHundredths(num, den) ==
  LET q == (num * 100) \div den
      r == (num * 100) % den
  IN  IF 2 * r < den THEN q
      ELSE IF 2 * r > den THEN q + 1
      ELSE IF q % 2 = 0 THEN q ELSE q + 1

\* prices = [li.price_rub for li in listings if li.price_rub is not None]
PricesOf(listings) ==
  SelectSeq2([i \in 1..Len(listings) |-> CellText(listings[i].price_rub)],
             [i \in 1..Len(listings) |-> listings[i].price_rub # None])

\* round(sum(prices) / len(prices), 2) if prices else None
MeanOf(prices) ==
  IF prices = <<>> THEN None ELSE Some(RoundHundredths(SumSeq(prices), Len(prices)))

\* the optional average of the present prices
avg_price(listings) == MeanOf(PricesOf(listings))

\* key(a) < key(b) for the key  li.price_rub or 10**12  (prices below 10**12)
KeyLess(a, b) ==
  /\ Truthy(a.price_rub)
  /\ (Truthy(b.price_rub) => a.price_rub[1] < b.price_rub[1])

\* cheapest that takes the last listing of the least key
cheapest_last(listings) ==
  listings[CHOOSE i \in 1..Len(listings) :
             /\ \A j \in 1..Len(listings) : ~KeyLess(listings[j], listings[i])
             /\ \A j \in (i + 1)..Len(listings) : KeyLess(listings[i], listings[j])]

\* min(listings, key=...): the first listing of the least key
cheapest(listings) ==
  listings[CHOOSE i \in 1..Len(listings) :
             /\ \A j \in 1..Len(listings) : ~KeyLess(listings[j], listings[i])
             /\ \A j \in 1..(i - 1) : KeyLess(listings[i], listings[j])]

\* markup_percent without the test  cost_c != 0
markup_percent_unguarded(avg, cost_c) ==
  IF avg # None /\ cost_c # None
  THEN Some(<<avg[1] * cost_c[1][2] - 100 * cost_c[1][1], cost_c[1][1]>>)
  ELSE None

\* lines 341-346: the optional markup
markup_percent(avg, cost_c) ==
  IF avg # None /\ cost_c # None
  THEN IF cost_c[1][1] # 0
       THEN Some(<<avg[1] * cost_c[1][2] - 100 * cost_c[1][1], cost_c[1][1]>>)
       ELSE None
  ELSE None

\* cheapest.url if cheapest and cheapest.url else None
UrlOrNone(url) == IF url # <<>> THEN Some(url) ELSE None

RowResultOf(avg, cost_c, ch) == RowResult(avg, markup_percent(avg, cost_c), UrlOrNone(ch.url))

aggregate(listings, cost_c) == RowResultOf(avg_price(listings), cost_c, cheapest(listings))

-----------------------------------------------------------------------------
(* save_with_formatting: lines 404-412, the fill of a row by its markup    *)

Tier1Min == 5

Tier2Min == 10

\* the fraction f with a positive denominator
Positive(f) == IF f[2] < 0 THEN <<0 - f[1], 0 - f[2]>> ELSE f

\* classify with the lower bound of the first tier left out
classify_above(e_val) ==
  IF e_val = None THEN "None"
  ELSE IF /\ FracGt(Positive(e_val[1]), <<Tier1Min, 1>>)
          /\ ~FracGeq(Positive(e_val[1]), <<Tier2Min, 1>>) THEN "Tier1"
  ELSE IF FracGeq(Positive(e_val[1]), <<Tier2Min, 1>>) THEN "Tier2"
  ELSE "None"

\* the fill of the row whose cell E holds e_val: "Tier1" is the yellow fill,
\* "Tier2" the green one, "None" no fill
classify(e_val) ==
  IF e_val = None THEN "None"
  ELSE IF /\ FracGeq(Positive(e_val[1]), <<Tier1Min, 1>>)
          /\ ~FracGeq(Positive(e_val[1]), <<Tier2Min, 1>>) THEN "Tier1"
  ELSE IF FracGeq(Positive(e_val[1]), <<Tier2Min, 1>>) THEN "Tier2"
  ELSE "None"

-----------------------------------------------------------------------------
(* process_excel: one pass of the loop over the rows, lines 285-350        *)
(*                                                                         *)
(* The outcome of a row: exit names the branch that ended it, steps the    *)
(* pipeline steps it executed in order ("tokens", "fetch", "extract",      *)
(* "select", "aggregate", "sleep"), lines the status lines it logged,      *)
(* written the RowResult stored in df at the row's ordinal (None if the    *)
(* row stored nothing), raised whether an exception left process_excel,    *)
(* info what the row saw: its tokens, whether the document held an         *)
(* anti-automation phrase, the numbers of extracted and selected listings. *)

\* Pace without the call of time.sleep
NoPace == <<>>

\* time.sleep(random.uniform(*REQUEST_DELAY_RANGE))
Pace == <<"sleep">>

\* FetchStep with a second attempt after a failed one
FetchStepRetry(resp) ==
  [html |-> fetch_html(resp),
   steps |-> IF fetch_html(resp) = None THEN <<"fetch", "fetch">> ELSE <<"fetch">>]

\* url = build_search_url(query); html = fetch_html(url, session)
FetchStep(resp) == [html |-> fetch_html(resp), steps |-> <<"fetch">>]

NoInfo == [tokens |-> <<>>, bot |-> FALSE, n_all |-> 0, n_sel |-> 0]

\* EarlyExit without the three df.loc assignments: the row stores nothing
EarlyExitStoresNothing(reason, steps, lines, info) ==
  [exit |-> reason, raised |-> FALSE, steps |-> steps, lines |-> lines,
   written |-> None, info |-> info]

\* the three df.loc assignments of None, the status line and continue
EarlyExit(reason, steps, lines, info) ==
  [exit |-> reason, raised |-> FALSE, steps |-> steps, lines |-> lines,
   written |-> Some(AllAbsent), info |-> info]

Aggregated(listings, cost_c, steps, lines, info) ==
  [exit |-> "aggregated", raised |-> FALSE, steps |-> steps, lines |-> lines,
   written |-> Some(aggregate(listings, cost_c)), info |-> info]

Raised(steps, lines, info) ==
  [exit |-> "raised", raised |-> TRUE, steps |-> steps, lines |-> lines,
   written |-> None, info |-> info]

\* lines 328-350, given the selected listings
AfterSelect(listings, cost_c, steps, info) ==
  IF listings = <<>>
  THEN EarlyExit("none_passed", steps \o <<"select">> \o Pace, <<"search", "none_passed">>,
                 [info EXCEPT !.n_sel = 0])
  ELSE Aggregated(listings, cost_c, steps \o <<"select", "aggregate">> \o Pace,
                  <<"search", "found">>, [info EXCEPT !.n_sel = Len(listings)])

\* lines 326-350: the selection and the aggregation of the extracted listings
RowTail(all, tokens, cost_c, steps, info) ==
  AfterSelect(choose_relevant(all, tokens), cost_c, steps, [info EXCEPT !.n_all = Len(all)])

\* lines 318-350, given the result of parse_listings_from_html
AfterExtract(all, tokens, cost_c, steps, info) ==
  IF all.raised THEN Raised(steps, <<"search">>, info)
  ELSE IF all.val = <<>>
  THEN EarlyExit("nothing_found", steps \o Pace, <<"search", "nothing_found">>, info)
  ELSE RowTail(all.val, tokens, cost_c, steps, info)

\* lines 307-350, given the result of the fetch
AfterFetch(f, tokens, cost_c) ==
  IF f.html = None
  THEN EarlyExit("fetch_failed", <<"tokens">> \o f.steps \o Pace, <<"search", "fetch_failed">>,
                 [NoInfo EXCEPT !.tokens = tokens])
  ELSE AfterExtract(parse_listings_from_html(f.html[1], BaseUrl), tokens, cost_c,
                    <<"tokens">> \o f.steps \o <<"extract">>,
                    [NoInfo EXCEPT !.tokens = tokens, !.bot = f.html[1].bot])

process_row(row, resp) ==
  IF Strip(CellText(row.brand)) = <<>> /\ Strip(CellText(row.name)) = <<>>
  THEN EarlyExit("empty_row", <<>>, <<"empty_row">>, NoInfo)
  ELSE AfterFetch(FetchStep(resp),
                  extract_tokens(CellText(row.brand), CellText(row.name)),
                  to_float(row.cost))

\* ProgressValue counting the rows still to do
ProgressValueRemaining(idx, total_rows) ==
  ((total_rows - idx) * 100) \div (IF total_rows > 1 THEN total_rows ELSE 1)

\* ProgressValue counting the row that is about to start as done
ProgressValueAhead(idx, total_rows) ==
  ((idx + 1) * 100) \div (IF total_rows > 1 THEN total_rows ELSE 1)

\* int((idx / max(1, total_rows)) * 100)
ProgressValue(idx, total_rows) ==
  (idx * 100) \div (IF total_rows > 1 THEN total_rows ELSE 1)

-----------------------------------------------------------------------------
(* The inputs the model draws from                                         *)

MaxRows == 2

MaxThreads == 2

MinColumns == 3

TxtApple == <<"A", "p", "p", "l", "e">>
TxtIphone == <<"i", "P", "h", "o", "n", "e", " ", "1", "2", " ", "1", "2", "8", " ", "CY_GE", "CY_BE">>
TxtI == <<"cy_i">>
TxtV == <<"cy_ve">>
TxtBlank == <<" ", " ">>
TxtCost == <<"3", "0", " ", "0", "0", "0">>
TxtZero == <<"0">>
TxtAbc == <<"a", "b", "c">>
TxtTitle == <<"A", "p", "p", "l", "e", " ", "i", "P", "h", "o", "n", "e", " ", "1", "2", " ", "1", "2", "8", "g", "b">>
TxtOther == <<"S", "t", "a", "n", "d">>
TxtPrice == <<"1", "2", "nbsp", "5", "0", "0", " ", "rub">>
TxtBsD == <<"bs", "d", " ", "rub">>
HrefItem1 == <<"/", "i", "t", "e", "m", "/", "1">>
HrefItem2 == <<"/", "i", "t", "e", "m", "/", "2">>
TxtAnchor == <<"i", "p", "h", "o", "n", "e">>

CatalogRow(brand, name, cost) == [brand |-> brand, name |-> name, cost |-> cost]

RowBlank == CatalogRow(None, Some(TxtBlank), Some(TxtCost))
RowPhone == CatalogRow(Some(TxtApple), Some(TxtIphone), Some(TxtCost))
RowFree  == CatalogRow(Some(TxtApple), Some(TxtIphone), Some(TxtZero))
RowStop  == CatalogRow(Some(TxtI), Some(TxtV), Some(TxtAbc))

Rows == {RowBlank, RowPhone, RowFree, RowStop}

Anchor(text, href) == [text |-> text, href |-> href]

Node(a, marked, text) == [a |-> a, marked |-> marked, text |-> text]

\* a priced listing: marked price element "12 500 RUB" with a non-breaking space
NodePriced ==
  Node(Some(Anchor(TxtTitle, Some(HrefItem1))), <<Some(TxtPrice), None, None, None>>,
       TxtTitle \o <<" ">> \o TxtPrice)

\* a listing without any price text
NodeNoPrice ==
  Node(Some(Anchor(TxtOther, Some(HrefItem2))), <<None, None, None, None>>, TxtOther)

\* a listing whose price text holds a backslash followed by "d"
NodeBackslash ==
  Node(Some(Anchor(TxtTitle, Some(HrefItem1))), <<None, Some(TxtBsD), None, None>>,
       TxtTitle \o <<" ">> \o TxtBsD)

\* a block without any anchor
NodeNoLink == Node(None, <<None, None, None, None>>, TxtOther)

Document(by_marker, by_class, by_article, anchors, bot) ==
  [by_marker |-> by_marker, by_class |-> by_class, by_article |-> by_article,
   anchors |-> anchors, bot |-> bot]

DocEmpty == Document(<<>>, <<>>, <<>>, <<>>, FALSE)

DocListings ==
  Document(<<NodePriced>>, <<NodePriced, NodeNoPrice>>, <<>>,
           <<Anchor(TxtTitle, HrefItem1), Anchor(TxtOther, HrefItem2)>>, FALSE)

DocAnchors == Document(<<>>, <<NodeNoLink>>, <<>>, <<Anchor(TxtAnchor, HrefItem2)>>, FALSE)

DocBackslash == Document(<<>>, <<>>, <<NodeBackslash>>, <<Anchor(TxtTitle, HrefItem1)>>, FALSE)

\* an anti-automation page without listing markup, and one with it
DocChallenge == Document(<<>>, <<>>, <<>>, <<>>, TRUE)

DocChallengeItems == Document(<<NodePriced>>, <<>>, <<>>, <<Anchor(TxtTitle, HrefItem1)>>, TRUE)

Docs == {DocEmpty, DocListings, DocAnchors, DocBackslash, DocChallenge, DocChallengeItems}

Response(exc, status_code, has_html, doc) ==
  [exc |-> exc, status_code |-> status_code, has_html |-> has_html, doc |-> doc]

Responses ==
  {Response(TRUE, 0, FALSE, DocEmpty),       \* timeout or transport error
   Response(FALSE, 403, TRUE, DocChallenge), \* non-success status
   Response(FALSE, 200, FALSE, DocEmpty)}    \* a payload that is not HTML
  \cup {Response(FALSE, 200, TRUE, d) : d \in Docs}

-----------------------------------------------------------------------------
(* The application: App (the Tk main thread), its widgets, the output file *)
(* and the worker threads started by on_start                              *)

VARIABLES
  input_path,   \* App.input_path: None or Some(path)
  output_path,  \* App.output_path
  btn_start,    \* App.btn_start["state"]: "normal" or "disabled"
  task_queue,   \* App.task_queue: the callbacks put and not yet run
  shown,        \* shown[w]: the message boxes shown for the batch of thread w
  log,          \* App.log: the number of texts log_print inserted since it was cleared
  progress,     \* App.progress["value"]
  outfile,      \* the file at the output path: "none", "formatted" or "plain"
  nthreads,     \* the number of worker threads started so far
  wk,           \* wk[w]: the state of worker thread w
  fn_call,      \* the arguments of a function applied on its own, or None
  fn_result     \* the value it returned, or None

vars == <<input_path, output_path, btn_start, task_queue, shown, log, progress,
          outfile, nthreads, wk, fn_call, fn_result>>

app_vars == <<input_path, output_path, btn_start, task_queue, shown, log, progress,
              outfile, nthreads, wk>>

Threads == 1..MaxThreads

InputFile == <<"catalog.xlsx">>

\* make_output_path(input_path)
make_output_path(path) == <<"catalog_analyzed.xlsx">>

\* the outcome of a row before any row was processed
NoRow == [exit |-> "none", raised |-> FALSE, steps |-> <<>>, lines |-> <<>>,
          written |-> None, info |-> NoInfo]

\* what pd.read_excel gives: an exception (readable is FALSE), or a table of
\* ncols columns and nrows rows
Table(readable, ncols, nrows) == [readable |-> readable, ncols |-> ncols, nrows |-> nrows]

NoTable == Table(FALSE, 0, 0)

\* A thread: pc is its place in worker(); tbl what read_excel gave it; total,
\* idx and df are process_excel's total_rows, idx and the result columns of
\* df (None where nothing is stored); cur is the outcome of the row processed
\* last, while the loop runs; net the fetches and pacing delays of the batch
\* in order; prog the value the thread assigned last to progress["value"];
\* errors the number of batch-level error lines logged; saved whether the
\* output file was written; ret the value process_excel returned.
NewThread ==
  [pc |-> "unborn", tbl |-> NoTable, total |-> 0, idx |-> 0, df |-> <<>>, cur |-> NoRow,
   net |-> <<>>, prog |-> 0, errors |-> 0, accepted |-> FALSE, saved |-> FALSE,
   ret |-> None]

AppInit ==
  /\ input_path = None
  /\ output_path = None
  /\ btn_start = "disabled"
  /\ task_queue = <<>>
  /\ shown = [w \in Threads |-> <<>>]
  /\ log = 0
  /\ progress = 0
  /\ outfile = "none"
  /\ nthreads = 0
  /\ wk = [w \in Threads |-> NewThread]

Init == AppInit /\ fn_call = None /\ fn_result = None

-----------------------------------------------------------------------------
(* App: the handlers of the main thread                                    *)

\* update_start_state
update_start_state(path) == IF path # None THEN "normal" ELSE "disabled"

\* choose_file: the dialog returns a path, or "" when it is cancelled
choose_file ==
  \E path \in {None, Some(InputFile)} :
    /\ IF path # None
       THEN /\ input_path' = path
            /\ btn_start' = update_start_state(path)
       ELSE UNCHANGED <<input_path, btn_start>>
    /\ UNCHANGED <<output_path, task_queue, shown, log, progress, outfile, nthreads, wk,
                   fn_call, fn_result>>

\* on_start: the command of the Start button, which runs only while the
\* button is enabled; without an input path it warns and returns; otherwise
\* it starts the next worker thread
on_start ==
  /\ btn_start = "normal"
  /\ nthreads < MaxThreads
  /\ input_path # None
  /\ progress' = 0
  /\ output_path' = None
  /\ log' = 0
  /\ btn_start' = "disabled"
  /\ nthreads' = nthreads + 1
  /\ wk' = [wk EXCEPT ![nthreads + 1].pc = "read"]
  /\ UNCHANGED <<input_path, task_queue, shown, outfile, fn_call, fn_result>>

\* RunCallback whose after_final shows a message box as well
RunCallbackLoud(cb, ui) ==
  CASE cb.name = "after_ok" ->
         IF cb.out # None
         THEN [ui EXCEPT !.output_path = cb.out,
                         !.shown[cb.w] = Append(@, "completed")]
         ELSE [ui EXCEPT !.shown[cb.w] = Append(@, "rejected")]
    [] cb.name = "after_err" ->
         [ui EXCEPT !.shown[cb.w] = Append(@, "error"), !.btn_start = "normal"]
    [] cb.name = "after_final" ->
         [ui EXCEPT !.shown[cb.w] = Append(@, "completed"), !.btn_start = "normal"]

\* RunCallback whose after_final leaves the Start button as it is
RunCallbackNoEnable(cb, ui) ==
  CASE cb.name = "after_ok" ->
         IF cb.out # None
         THEN [ui EXCEPT !.output_path = cb.out,
                         !.shown[cb.w] = Append(@, "completed")]
         ELSE [ui EXCEPT !.shown[cb.w] = Append(@, "rejected")]
    [] cb.name = "after_err" ->
         [ui EXCEPT !.shown[cb.w] = Append(@, "error"), !.btn_start = "normal"]
    [] cb.name = "after_final" -> ui

\* one callback run by process_queue, as a change of [output_path, btn_start, shown]
RunCallback(cb, ui) ==
  CASE cb.name = "after_ok" ->
         IF cb.out # None
         THEN [ui EXCEPT !.output_path = cb.out,
                         !.shown[cb.w] = Append(@, "completed")]
         ELSE [ui EXCEPT !.shown[cb.w] = Append(@, "rejected")]
    [] cb.name = "after_err" ->
         [ui EXCEPT !.shown[cb.w] = Append(@, "error"), !.btn_start = "normal"]
    [] cb.name = "after_final" ->
         [ui EXCEPT !.btn_start = "normal"]

RECURSIVE RunAll(_, _)
RunAll(queue, ui) ==
  IF queue = <<>> THEN ui ELSE RunAll(Tail(queue), RunCallback(Head(queue), ui))

\* process_queue: runs every callback of the queue, then re-arms itself
process_queue ==
  LET ui == RunAll(task_queue,
                   [output_path |-> output_path, btn_start |-> btn_start, shown |-> shown])
  IN  /\ output_path' = ui.output_path
      /\ btn_start' = ui.btn_start
      /\ shown' = ui.shown
      /\ task_queue' = <<>>
      /\ UNCHANGED <<input_path, log, progress, outfile, nthreads, wk, fn_call, fn_result>>

-----------------------------------------------------------------------------
(* The worker thread: worker() and process_excel                           *)

\* the tables of the model
Tables == {NoTable} \cup {Table(TRUE, c, n) : c \in {2, 3}, n \in 0..MaxRows}

\* Accepts without the test of df.shape[1]
AcceptsAnyShape(tbl) == tbl.readable

\* lines 258-267: whether the table is accepted
Accepts(tbl) == tbl.readable /\ ~(tbl.ncols < MinColumns)

\* log_print(log_widget, text)
log_print(n) == n + 1

\* lines 258-284 of process_excel
W_Read(w) ==
  /\ wk[w].pc = "read"
  /\ \E tbl \in Tables :
       IF Accepts(tbl)
       THEN /\ wk' = [wk EXCEPT ![w].pc = "rows", ![w].accepted = TRUE, ![w].tbl = tbl,
                                ![w].total = tbl.nrows, ![w].idx = 0,
                                ![w].df = [i \in 1..tbl.nrows |-> None]]
            /\ UNCHANGED log
       ELSE /\ log' = log_print(log)
            /\ wk' = [wk EXCEPT ![w].pc = "put_ok", ![w].tbl = tbl,
                                ![w].errors = @ + 1, ![w].ret = None]
  /\ UNCHANGED <<input_path, output_path, btn_start, task_queue, shown, progress,
                 outfile, nthreads, fn_call, fn_result>>

\* the ordinal of the row after row idx
NextRow(idx) == idx + 1

\* StoreRow that stores every result at the first ordinal
StoreRowFirst(df, idx, written) == IF written = None THEN df ELSE [df EXCEPT ![1] = written]

\* df.loc[idx, 3..5] = ...: the result stored at ordinal idx (0-based)
StoreRow(df, idx, written) == IF written = None THEN df ELSE [df EXCEPT ![idx + 1] = written]

\* the fetches and pacing delays among the steps of a row
NetOf(steps) == SelectSeq(steps, LAMBDA x : x \in {"fetch", "sleep"})

\* what one pass of the loop can do, over the rows and responses of the model
RowOutcomes == {process_row(row, resp) : row \in Rows, resp \in Responses}

\* lines 285-350: one pass of the loop, for the row at ordinal idx
W_Row(w) ==
  /\ wk[w].pc = "rows"
  /\ wk[w].idx < wk[w].total
  /\ \E o \in RowOutcomes :
       /\ progress' = ProgressValue(wk[w].idx, wk[w].total)
       /\ log' = log + Len(o.lines)
       /\ wk' = [wk EXCEPT ![w].cur = o,
                           ![w].prog = ProgressValue(wk[w].idx, wk[w].total),
                           ![w].df = StoreRow(@, wk[w].idx, o.written),
                           ![w].net = @ \o NetOf(o.steps),
                           ![w].idx = IF o.raised THEN @ ELSE NextRow(@),
                           ![w].pc = IF o.raised THEN "put_err" ELSE "rows"]
  /\ UNCHANGED <<input_path, output_path, btn_start, task_queue, shown, outfile, nthreads, fn_call, fn_result>>

\* lines 352-363: save_with_formatting, the plain fallback when it raises,
\* and an exception leaving process_excel when the fallback raises too
W_Save(w) ==
  /\ wk[w].pc = "rows"
  /\ wk[w].idx = wk[w].total
  /\ \E saving \in {"formatted", "plain", "failed"} :
       CASE saving = "formatted" ->
              /\ outfile' = "formatted"
              /\ progress' = 100
              /\ wk' = [wk EXCEPT ![w].pc = "put_ok", ![w].saved = TRUE, ![w].cur = NoRow,
                                  ![w].prog = 100,
                                  ![w].ret = Some(make_output_path(input_path))]
              /\ UNCHANGED log
         [] saving = "plain" ->
              /\ outfile' = "plain"
              /\ log' = log_print(log)
              /\ progress' = 100
              /\ wk' = [wk EXCEPT ![w].pc = "put_ok", ![w].saved = TRUE, ![w].cur = NoRow,
                                  ![w].prog = 100,
                                  ![w].ret = Some(make_output_path(input_path))]
         [] saving = "failed" ->
              /\ outfile' \in {outfile, "plain"}
              /\ log' = log_print(log)
              /\ wk' = [wk EXCEPT ![w].pc = "put_err", ![w].cur = NoRow]
              /\ UNCHANGED progress
  /\ UNCHANGED <<input_path, output_path, btn_start, task_queue, shown, nthreads, fn_call, fn_result>>

Callback(name, w, out) == [name |-> name, w |-> w, out |-> out]

\* lines 518-525: self.task_queue.put(after_ok)
W_PutOk(w) ==
  /\ wk[w].pc = "put_ok"
  /\ task_queue' = Append(task_queue, Callback("after_ok", w, wk[w].ret))
  /\ wk' = [wk EXCEPT ![w].pc = "put_final"]
  /\ UNCHANGED <<input_path, output_path, btn_start, shown, log, progress, outfile, nthreads, fn_call, fn_result>>

\* lines 526-530: self.task_queue.put(after_err)
W_PutErr(w) ==
  /\ wk[w].pc = "put_err"
  /\ task_queue' = Append(task_queue, Callback("after_err", w, None))
  /\ wk' = [wk EXCEPT ![w].pc = "put_final"]
  /\ UNCHANGED <<input_path, output_path, btn_start, shown, log, progress, outfile, nthreads, fn_call, fn_result>>

\* lines 531-534: self.task_queue.put(after_final)
W_PutFinal(w) ==
  /\ wk[w].pc = "put_final"
  /\ task_queue' = Append(task_queue, Callback("after_final", w, None))
  /\ wk' = [wk EXCEPT ![w].pc = "done"]
  /\ UNCHANGED <<input_path, output_path, btn_start, shown, log, progress, outfile, nthreads, fn_call, fn_result>>

Worker(w) ==
  \/ W_Read(w)
  \/ W_Row(w)
  \/ W_Save(w)
  \/ W_PutOk(w)
  \/ W_PutErr(w)
  \/ W_PutFinal(w)

Next ==
  \/ choose_file
  \/ on_start
  \/ process_queue
  \/ \E w \in Threads : Worker(w)

Spec == Init /\ [][Next]_vars

\* The same program under its scheduling: a started thread keeps running
\* until worker() returns (lines 536-537), and process_queue re-arms itself
\* every 100 ms with self.after (line 546).
SpecLive ==
  /\ Init
  /\ [][Next]_vars
  /\ WF_vars(process_queue)
  /\ \A w \in Threads : WF_vars(Worker(w))

-----------------------------------------------------------------------------
(* Lines 326-350 of process_excel on their own: the selection and the      *)
(* aggregation applied to the listings an extraction returned, for a row   *)
(* with the tokens of "Apple" / "iPhone 12 128 GB" and a cost cell.        *)

MaxFound == 2

TxtComma == <<"1", "2", ",", "5">>
TxtMinus == <<"-", "5", "0", "0", "0">>

\* extracted listings: priced 12500, 9990 and 0, without a price, off-topic
Found ==
  {Listing(TxtTitle, BaseUrl \o HrefItem1, Some(12500)),
   Listing(TxtTitle, BaseUrl \o HrefItem2, Some(9990)),
   Listing(TxtTitle, BaseUrl \o HrefItem2, Some(0)),
   Listing(TxtTitle, BaseUrl \o HrefItem1, None),
   Listing(TxtOther, BaseUrl \o HrefItem2, Some(9990))}

FoundLists == UNION {[1..n -> Found] : n \in 1..MaxFound}

CostCells == {None, Some(TxtCost), Some(TxtZero), Some(TxtAbc), Some(TxtComma), Some(TxtMinus)}

TailCall(all, cost) == [all |-> all, cost |-> cost]

InitTail ==
  /\ AppInit
  /\ fn_call \in {Some(TailCall(all, cost)) : all \in FoundLists, cost \in CostCells}
  /\ fn_result = None

\* tokens = extract_tokens(brand, name); cost_c = to_float(row.iloc[2]); then
\* lines 326-350
ApplyRowTail ==
  /\ fn_call # None
  /\ fn_result = None
  /\ fn_result' = Some(RowTail(fn_call[1].all, extract_tokens(TxtApple, TxtIphone),
                               to_float(fn_call[1].cost),
                               <<"tokens", "fetch", "extract">>, NoInfo))
  /\ UNCHANGED <<fn_call, app_vars>>

NextTail == ApplyRowTail

SpecTail == InitTail /\ [][NextTail]_vars

-----------------------------------------------------------------------------
(* choose_relevant on its own: applied to lists of candidates, each with   *)
(* one of four titles and one of three prices and a url of its own, and to *)
(* a token list.                                                           *)

MaxCandidates == 2

\* the lengths of the lists that exceed MAX_RESULTS_PER_QUERY
LongLengths == {MAX_RESULTS_PER_QUERY + 1, MAX_RESULTS_PER_QUERY + 5}

SelTokens == <<<<"a", "1">>, <<"b", "2">>, <<"c", "3">>, <<"d", "4">>>>

\* titles holding four, three, two and one of the four tokens
SelTitles ==
  <<<<"A", "1", " ", "b", "2", " ", "c", "3", " ", "d", "4">>,
    <<"a", "1", " ", "B", "2", " ", "c", "3">>,
    <<"a", "1", "-", "b", "2">>,
    <<"x", " ", "a", "1">>>>

SelPrices == <<Some(12500), Some(0), None>>

\* the candidate found at place i
UrlAt(i) == <<"/", "i", "t", "e", "m", "/">> \o <<i>>

Candidate(i, kind) == Listing(SelTitles[kind[1]], UrlAt(i), SelPrices[kind[2]])

Kinds == (1..Len(SelTitles)) \X (1..Len(SelPrices))

ShortLists ==
  UNION {{[i \in 1..n |-> Candidate(i, ks[i])] : ks \in [1..n -> Kinds]} : n \in 0..MaxCandidates}

\* long lists of priced candidates whose titles go round the four titles,
\* starting at title k
LongLists ==
  {[i \in 1..n |-> Candidate(i, <<((i + k) % Len(SelTitles)) + 1, 1>>)] :
     n \in LongLengths, k \in 1..Len(SelTitles)}

SelectCall(listings, required_tokens) ==
  [listings |-> listings, required_tokens |-> required_tokens]

InitSelect ==
  /\ AppInit
  /\ fn_call \in {Some(SelectCall(l, t)) : l \in ShortLists \cup LongLists,
                                          t \in {SelTokens, SubSeq(SelTokens, 1, 2), <<>>}}
  /\ fn_result = None

ApplySelect ==
  /\ fn_call # None
  /\ fn_result = None
  /\ fn_result' = Some(choose_relevant(fn_call[1].listings, fn_call[1].required_tokens))
  /\ UNCHANGED <<fn_call, app_vars>>

NextSelect == ApplySelect

SpecSelect == InitSelect /\ [][NextSelect]_vars

-----------------------------------------------------------------------------
(* score_listing_match on its own: applied to a title and to a token list  *)
(* drawn from four tokens, in order, the empty list included.              *)

\* the elements of xs at the places of the set keep, in order
Pick(xs, keep) == SelectSeq2(xs, [i \in 1..Len(xs) |-> i \in keep])

ScoreTokenLists == {Pick(SelTokens, keep) : keep \in SUBSET (1..Len(SelTokens))}

ScoreTitles ==
  {SelTitles[i] : i \in 1..Len(SelTitles)}
    \cup {TxtTitle, TxtOther, TxtBlank, <<>>, <<"a", "!", "1", " ", "B", "2">>,
          <<"d", "4", ",", "c", "3", ".", "b", "2", "/", "a", "1">>}

ScoreCall(listing_title, required_tokens) ==
  [listing_title |-> listing_title, required_tokens |-> required_tokens]

InitScore ==
  /\ AppInit
  /\ fn_call \in {Some(ScoreCall(t, toks)) : t \in ScoreTitles, toks \in ScoreTokenLists}
  /\ fn_result = None

ApplyScore ==
  /\ fn_call # None
  /\ fn_result = None
  /\ fn_result' = Some(score_listing_match(fn_call[1].listing_title,
                                           fn_call[1].required_tokens))
  /\ UNCHANGED <<fn_call, app_vars>>

NextScore == ApplyScore

SpecScore == InitScore /\ [][NextScore]_vars

-----------------------------------------------------------------------------
(* Lines 328-350 of process_excel on their own: applied to the selected    *)
(* listings, each with a price and a url of its own, and to a cost cell.   *)

MaxSelected == 3

AggPrices == {100, 101, 250}

SelectedLists ==
  UNION {{[i \in 1..n |-> Listing(TxtTitle, UrlAt(i), Some(ps[i]))] : ps \in [1..n -> AggPrices]} :
           n \in 0..MaxSelected}

AggregateCall(listings, cost) == [listings |-> listings, cost |-> cost]

InitAggregate ==
  /\ AppInit
  /\ fn_call \in {Some(AggregateCall(l, c)) : l \in SelectedLists, c \in CostCells}
  /\ fn_result = None

ApplyAggregate ==
  /\ fn_call # None
  /\ fn_result = None
  /\ fn_result' = Some(AfterSelect(fn_call[1].listings, to_float(fn_call[1].cost),
                                   <<"tokens", "fetch", "extract">>, NoInfo))
  /\ UNCHANGED <<fn_call, app_vars>>

NextAggregate == ApplyAggregate

SpecAggregate == InitAggregate /\ [][NextAggregate]_vars

-----------------------------------------------------------------------------
(* Lines 341-346 of process_excel and lines 404-412 of                     *)
(* save_with_formatting on their own: the fill of a row, from its average  *)
(* price (in hundredths) and its cost cell.                                *)

TxtHundred == <<"1", "0", "0">>

TxtMinusHundred == <<"-", "1", "0", "0">>

\* 104.99, 105.00, 105.01, 109.99, 110.00, 110.01, 90.00, 200.00
TierAverages == {10499, 10500, 10501, 10999, 11000, 11001, 9000, 20000}

TierCosts ==
  {None, Some(TxtHundred), Some(TxtMinusHundred), Some(TxtZero), Some(TxtAbc),
   Some(TxtComma), Some(TxtCost)}

TierCall(avg, cost) == [avg |-> avg, cost |-> cost]

InitClassify ==
  /\ AppInit
  /\ fn_call \in {Some(TierCall(a, c)) : a \in {None} \cup {Some(h) : h \in TierAverages},
                                        c \in TierCosts}
  /\ fn_result = None

ApplyClassify ==
  /\ fn_call # None
  /\ fn_result = None
  /\ fn_result' = Some(classify(markup_percent(fn_call[1].avg, to_float(fn_call[1].cost))))
  /\ UNCHANGED <<fn_call, app_vars>>

NextClassify == ApplyClassify

SpecClassify == InitClassify /\ [][NextClassify]_vars

-----------------------------------------------------------------------------
(* Lines 211-216 of parse_listings_from_html on their own: the price of a  *)
(* candidate from its price text.                                          *)

MaxPriceLen == 3

PriceChars == {"1", "2", "0", " ", "nbsp", "rub", "bs", "d"}

PriceTexts ==
  {None, Some(TxtPrice), Some(TxtBsD)}
    \cup UNION {{Some(t) : t \in [1..n -> PriceChars]} : n \in 0..MaxPriceLen}

InitPrice ==
  /\ AppInit
  /\ fn_call \in {Some(t) : t \in PriceTexts}
  /\ fn_result = None

ApplyPrice ==
  /\ fn_call # None
  /\ fn_result = None
  /\ fn_result' = Some(PriceOf(fn_call[1]))
  /\ UNCHANGED <<fn_call, app_vars>>

NextPrice == ApplyPrice

SpecPrice == InitPrice /\ [][NextPrice]_vars

-----------------------------------------------------------------------------
(* extract_tokens on its own, called twice on the same brand and name.     *)

MaxWords == 3

\* "a", a stop-word, "Ab", "ab", "a-b" and "x,yz"
TokWords ==
  { <<"a">>, <<"cy_ge", "cy_be">>, <<"A", "b">>, <<"a", "b">>,
    <<"a", "-", "b">>, <<"x", ",", "y", "z">> }

TokBrands == {TxtApple, TxtI, <<"a">>}

\* the words of ws with one space between them
RECURSIVE SpaceJoin(_)
SpaceJoin(ws) ==
  IF ws = <<>> THEN <<>>
  ELSE IF Len(ws) = 1 THEN Head(ws)
  ELSE Head(ws) \o <<" ">> \o SpaceJoin(Tail(ws))

TokNames == UNION {{SpaceJoin(ws) : ws \in [1..n -> TokWords]} : n \in 0..MaxWords}

TokensCall(brand, name) == [brand |-> brand, name |-> name]

InitTokens ==
  /\ AppInit
  /\ fn_call \in {Some(TokensCall(b, n)) : b \in TokBrands, n \in TokNames}
  /\ fn_result = <<>>

\* one call of extract_tokens; its result is appended to those so far
ApplyTokens ==
  /\ fn_call # None
  /\ Len(fn_result) < 2
  /\ fn_result' = fn_result \o <<extract_tokens(fn_call[1].brand, fn_call[1].name)>>
  /\ UNCHANGED <<fn_call, app_vars>>

NextTokens == ApplyTokens

SpecTokens == InitTokens /\ [][NextTokens]_vars

-----------------------------------------------------------------------------
(* normalize_text on its own, applied to a text and then to its own result. *)

MaxTextLen == 5

NormChars == {"a", "s", " ", "bs", ","}

NormTexts == UNION {[1..n -> NormChars] : n \in 0..MaxTextLen}

InitNormalize ==
  /\ AppInit
  /\ fn_call \in {Some(t) : t \in NormTexts}
  /\ fn_result = <<>>

\* one call of normalize_text: on the text first, then on the last result
ApplyNormalize ==
  /\ fn_call # None
  /\ Len(fn_result) < 2
  /\ fn_result' = fn_result \o
       <<normalize_text(IF fn_result = <<>> THEN fn_call[1] ELSE fn_result[Len(fn_result)])>>
  /\ UNCHANGED <<fn_call, app_vars>>

NextNormalize == ApplyNormalize

SpecNormalize == InitNormalize /\ [][NextNormalize]_vars

-----------------------------------------------------------------------------
(* Properties                                                              *)

\* the number of occurrences of x in the sequence s
Count(s, x) == Cardinality({i \in 1..Len(s) : s[i] = x})

StepsOf(o) == {o.steps[i] : i \in 1..Len(o.steps)}

\* the four row-level exits, and the pipeline steps that come after each
EarlyExits == {"empty_row", "fetch_failed", "nothing_found", "none_passed"}

LaterSteps(exit) ==
  CASE exit = "empty_row" -> {"tokens", "fetch", "extract", "select", "aggregate"}
    [] exit = "fetch_failed" -> {"extract", "select", "aggregate"}
    [] exit = "nothing_found" -> {"select", "aggregate"}
    [] exit = "none_passed" -> {"aggregate"}

\* C1: a row that takes one of the four row-level exits (empty row, fetch
\* failure, empty extraction, empty selection) is done without raising, has
\* the all-absent RowResult stored at its ordinal, has logged a status line,
\* and has executed none of the pipeline steps that come after its exit.
C1_EarlyExitAllAbsent ==
  \A w \in Threads :
    wk[w].cur.exit \in EarlyExits =>
      /\ ~wk[w].cur.raised
      /\ wk[w].idx >= 1
      /\ wk[w].df[wk[w].idx] = Some(AllAbsent)
      /\ wk[w].cur.lines # <<>>
      /\ StepsOf(wk[w].cur) \cap LaterSteps(wk[w].cur.exit) = {}

\* a batch whose two rows ended by early exits, the second by an empty
\* selection, while the other batch just skipped an empty row
C1_Witness ==
  /\ wk[1].cur.exit = "none_passed"
  /\ wk[1].idx = 2
  /\ wk[1].df = <<Some(AllAbsent), Some(AllAbsent)>>
  /\ wk[2].cur.exit = "empty_row"
  /\ wk[2].df[1] = Some(AllAbsent)

\* C2: once the table is accepted, no row raises to the caller and the batch
\* is not stopped before its last row: a batch that has left the loop has
\* processed every row, and a batch whose output was saved ends 'completed'.
C2_NoRowStopsBatch ==
  \A w \in Threads :
    wk[w].accepted =>
      /\ ~wk[w].cur.raised
      /\ (wk[w].pc # "rows" => wk[w].idx = wk[w].total)
      /\ (wk[w].saved /\ shown[w] # <<>> => shown[w] = <<"completed">>)

\* the cost cell gives a number other than zero
CostUsable(cell) == to_float(cell) # None /\ to_float(cell)[1][1] # 0

\* C3: in the RowResult that lines 326-350 store, markupPercent is present
\* if and only if avgPrice is present and the row's cost is present, numeric
\* and non-zero; markupPercent is never present while avgPrice is absent.
C3_MarkupIffAvgAndCost ==
  fn_result # None =>
    /\ fn_result[1].written # None
    /\ (fn_result[1].written[1].markupPercent # None)
         <=> (fn_result[1].written[1].avgPrice # None /\ CostUsable(fn_call[1].cost))
    /\ (fn_result[1].written[1].avgPrice = None
          => fn_result[1].written[1].markupPercent = None)

\* listings were selected and aggregated, and the markup is present
C3_Witness ==
  /\ fn_result # None
  /\ fn_result[1].exit = "aggregated"
  /\ fn_result[1].written[1].avgPrice # None
  /\ fn_result[1].written[1].markupPercent # None

FailedResponses == {r \in Responses : r.exc \/ r.status_code # 200 \/ ~r.has_html}

\* C5: a row makes at most one fetch; every failed response makes the fetch
\* step yield no document after a single attempt, and a row whose fetch
\* failed fetched once, extracted nothing and stored the all-absent result.
C5_AtMostOneFetch ==
  /\ \A r \in FailedResponses :
       FetchStep(r).html = None /\ Count(FetchStep(r).steps, "fetch") = 1
  /\ \A w \in Threads :
       /\ Count(wk[w].cur.steps, "fetch") <= 1
       /\ wk[w].cur.exit = "fetch_failed" =>
            /\ Count(wk[w].cur.steps, "fetch") = 1
            /\ "extract" \notin StepsOf(wk[w].cur)
            /\ wk[w].cur.written = Some(AllAbsent)

\* the first row of a batch failed to fetch: one fetch, one delay
C5_Witness ==
  /\ wk[1].cur.exit = "fetch_failed"
  /\ wk[1].net = <<"fetch", "sleep">>
  /\ wk[1].df[1] = Some(AllAbsent)

\* C6: a batch whose table has fewer than three columns is not accepted: it
\* processes no row, fetches nothing, writes no output, logs the error once
\* and shows no outcome other than a single 'rejected'.
C6_TooFewColumnsRejected ==
  \A w \in Threads :
    (wk[w].tbl.readable /\ wk[w].tbl.ncols < 3) =>
      /\ ~wk[w].accepted
      /\ wk[w].idx = 0
      /\ wk[w].df = <<>>
      /\ wk[w].cur = NoRow
      /\ wk[w].net = <<>>
      /\ ~wk[w].saved
      /\ wk[w].ret = None
      /\ wk[w].errors = 1
      /\ wk[w].pc \in {"put_ok", "put_final", "done"}
      /\ shown[w] \in {<<>>, <<"rejected">>}

\* a table of two columns and two rows was rejected and the outcome shown
C6_Witness ==
  /\ wk[1].tbl = Table(TRUE, 2, MaxRows)
  /\ wk[1].pc = "done"
  /\ shown[1] = <<"rejected">>
  /\ outfile = "none"

\* C7: the rows of a batch are processed one after the other in input
\* order: at any time the rows holding a result are exactly the rows before
\* idx, each at its own ordinal, and a saved output holds one result for
\* every input row.
C7_RowsInOrderOnePerRow ==
  \A w \in Threads :
    wk[w].accepted =>
      /\ Len(wk[w].df) = wk[w].total
      /\ wk[w].idx <= wk[w].total
      /\ \A i \in 1..wk[w].total : (wk[w].df[i] # None) <=> (i <= wk[w].idx)
      /\ (wk[w].saved => \A i \in 1..wk[w].total : wk[w].df[i] # None)

\* a batch of MaxRows rows was saved with a result for each row
C7_Witness ==
  /\ wk[1].saved
  /\ wk[1].total = MaxRows
  /\ wk[1].idx = MaxRows
  /\ \A i \in 1..MaxRows : wk[1].df[i] # None

\* C8: a row whose document holds an anti-automation phrase gets zero
\* candidates from the extractor and ends as an empty extraction does.
C8_ChallengeYieldsNothing ==
  \A w \in Threads :
    wk[w].cur.info.bot =>
      /\ wk[w].cur.info.n_all = 0
      /\ wk[w].cur.exit = "nothing_found"

\* a step of a worker thread
WorkerStep == \E w \in Threads : Worker(w)

\* C9: no step of a worker thread changes the log widget, the progress bar
\* or the Start button: the worker reaches them only through task_queue.
C9_WorkerLeavesWidgetsAlone ==
  [][WorkerStep => UNCHANGED <<log, progress, btn_start>>]_vars

\* the worker of batch w has ended and none of its callbacks is left in the queue
Delivered(w) ==
  wk[w].pc = "done" /\ \A i \in 1..Len(task_queue) : task_queue[i].w # w

\* a batch shows at most one outcome, one once it is delivered, each among outcomes
OneOutcomeAmong(outcomes) ==
  \A w \in Threads :
    /\ Len(shown[w]) <= 1
    /\ (Delivered(w) => Len(shown[w]) = 1)
    /\ \A i \in 1..Len(shown[w]) : shown[w][i] \in outcomes

ReportsProgress(w) == W_Row(w) \/ (~wk[w].saved /\ wk'[w].saved)

\* C11: the values a batch assigns to the progress bar never decrease, and
\* the update that follows a row whose fetch failed is greater than the one
\* before it.
C11_ProgressNeverDecreases ==
  [][\A w \in Threads :
       /\ wk'[w].prog >= wk[w].prog
       /\ (wk[w].cur.exit = "fetch_failed" /\ ReportsProgress(w)
             => wk'[w].prog > wk[w].prog)]_vars

\* the second row of a batch of two failed to fetch after the bar went to 50
C11_Witness ==
  /\ wk[1].total = 2
  /\ wk[1].idx = 2
  /\ wk[1].cur.exit = "fetch_failed"
  /\ wk[1].prog = 50
  /\ progress = 50

\* the update that follows row k of total (k counted from 1) has the value
\* k / total as a whole percentage: while the loop runs, the last update is
\* the one that followed the row before the row processed last
UpdatesFollowRows(w) ==
  (wk[w].pc = "rows" /\ wk[w].cur.exit # "none" /\ ~wk[w].cur.raised) =>
     wk[w].prog = ((wk[w].idx - 1) * 100) \div wk[w].total

PlaceIn(listings, x) == CHOOSE k \in 1..Len(listings) : listings[k] = x

\* C13: choose_relevant returns at most MAX_RESULTS_PER_QUERY (20) of the
\* candidates, each with a present price and a score of at least 0.5, in
\* order of non-increasing score, candidates of equal score in the order in
\* which they were found.
C13_SelectBoundedSortedStable ==
  fn_result # None =>
    /\ Len(fn_result[1]) <= 20
    /\ \A i \in 1..Len(fn_result[1]) :
         /\ \E k \in 1..Len(fn_call[1].listings) : fn_call[1].listings[k] = fn_result[1][i]
         /\ fn_result[1][i].price_rub # None
         /\ FracGeq(score_listing_match(fn_result[1][i].title, fn_call[1].required_tokens),
                    <<1, 2>>)
    /\ \A i \in 1..Len(fn_result[1]) : \A j \in (i + 1)..Len(fn_result[1]) :
         /\ FracGeq(score_listing_match(fn_result[1][i].title, fn_call[1].required_tokens),
                    score_listing_match(fn_result[1][j].title, fn_call[1].required_tokens))
         /\ (FracGeq(score_listing_match(fn_result[1][j].title, fn_call[1].required_tokens),
                     score_listing_match(fn_result[1][i].title, fn_call[1].required_tokens))
               => PlaceIn(fn_call[1].listings, fn_result[1][i])
                    < PlaceIn(fn_call[1].listings, fn_result[1][j]))

\* more than 20 candidates were found and 20 were returned, the first and
\* the second of score 1, the last of score 1/2
C13_Witness ==
  /\ fn_result # None
  /\ Len(fn_call[1].listings) > 20
  /\ Len(fn_result[1]) = 20
  /\ score_listing_match(fn_result[1][1].title, fn_call[1].required_tokens) = <<2, 2>>
  /\ score_listing_match(fn_result[1][2].title, fn_call[1].required_tokens) = <<2, 2>>
  /\ score_listing_match(fn_result[1][20].title, fn_call[1].required_tokens) = <<1, 2>>

\* every token of the call is a substring of the normalized title
AllTokensInTitle ==
  \A i \in 1..Len(fn_call[1].required_tokens) :
    Contains(normalize_text(fn_call[1].listing_title), fn_call[1].required_tokens[i])

\* the score hits / len lies in [0, 1]
ScoreInUnitInterval ==
  fn_result[1][2] > 0 /\ 0 <= fn_result[1][1] /\ fn_result[1][1] <= fn_result[1][2]

\* C14 as stated: for every token list, the empty one included, the score
\* lies in [0, 1] and is 1 if and only if every token is a substring of the
\* normalized title.
C14_ScoreOneIffAllTokens ==
  fn_result # None =>
    /\ ScoreInUnitInterval
    /\ (fn_result[1][1] = fn_result[1][2]) <=> AllTokensInTitle

\* C14 amended: the score lies in [0, 1]; for a non-empty token list it is
\* 1 if and only if every token is a substring of the normalized title; for
\* the empty token list it is 0.
C14_ScoreOneIffAllOfSomeTokens ==
  fn_result # None =>
    /\ ScoreInUnitInterval
    /\ (fn_call[1].required_tokens # <<>>
          => ((fn_result[1][1] = fn_result[1][2]) <=> AllTokensInTitle))
    /\ (fn_call[1].required_tokens = <<>> => fn_result[1][1] = 0)

\* four tokens, all found in a title that holds one of them in capitals
C14_Witness ==
  /\ fn_result = Some(<<4, 4>>)
  /\ fn_call[1].listing_title = SelTitles[1]
  /\ ~Contains(fn_call[1].listing_title, fn_call[1].required_tokens[1])

\* the sum of the prices of the listings
PriceSum(listings) == SumSeq([i \in 1..Len(listings) |-> listings[i].price_rub[1]])

\* h hundredths is the mean of the prices of the listings rounded to two
\* decimals: no whole number of hundredths is nearer to the mean
IsRoundedMean(h, listings) ==
  /\ 2 * (h * Len(listings) - 100 * PriceSum(listings)) <= Len(listings)
  /\ 2 * (100 * PriceSum(listings) - h * Len(listings)) <= Len(listings)

\* the first place of the least price
FirstOfMinPrice(listings) ==
  CHOOSE i \in 1..Len(listings) :
    /\ \A j \in 1..Len(listings) : listings[i].price_rub[1] <= listings[j].price_rub[1]
    /\ \A j \in 1..(i - 1) : listings[i].price_rub[1] < listings[j].price_rub[1]

\* C15: for a non-empty selection avgPrice is the mean of the selected
\* prices rounded to two decimals and cheapestUrl is the url of the first
\* selected listing of the least price; for an empty selection avgPrice and
\* cheapestUrl are absent, whatever the cost cell.
C15_MeanAndFirstCheapest ==
  fn_result # None =>
    /\ fn_result[1].written # None
    /\ (fn_call[1].listings = <<>> =>
          /\ fn_result[1].written[1].avgPrice = None
          /\ fn_result[1].written[1].cheapestUrl = None)
    /\ (fn_call[1].listings # <<>> =>
          /\ fn_result[1].written[1].avgPrice # None
          /\ IsRoundedMean(fn_result[1].written[1].avgPrice[1], fn_call[1].listings)
          /\ fn_result[1].written[1].cheapestUrl
               = Some(fn_call[1].listings[FirstOfMinPrice(fn_call[1].listings)].url))

\* prices 101, 100, 100: the mean 100.333... is stored as 100.33 and the
\* url is the one of the second listing, the first of the two cheapest
C15_Witness ==
  /\ fn_result # None
  /\ Len(fn_call[1].listings) = 3
  /\ fn_call[1].listings[1].price_rub = Some(101)
  /\ fn_call[1].listings[2].price_rub = Some(100)
  /\ fn_call[1].listings[3].price_rub = Some(100)
  /\ fn_result[1].written[1].avgPrice = Some(10033)
  /\ fn_result[1].written[1].cheapestUrl = Some(UrlAt(2))

\* the call is for the average h hundredths and the cost cell "100"
AverageOverHundred(h) == fn_call[1].avg = Some(h) /\ fn_call[1].cost = Some(TxtHundred)

\* the markup of the call, a fraction with a positive denominator
CallMarkup == Positive(markup_percent(fn_call[1].avg, to_float(fn_call[1].cost))[1])

\* C16: an absent markup gives no tier, a markup in [5, 10) Tier1, a markup
\* of 10 or more Tier2 and a markup below 5 no tier: 4.99 gives none, 5.00
\* and 9.99 Tier1, 10.00 Tier2; a row whose cost is 0 has no tier although
\* its average is present.
C16_TierBoundaries ==
  fn_result # None =>
    /\ (markup_percent(fn_call[1].avg, to_float(fn_call[1].cost)) = None
          => fn_result[1] = "None")
    /\ (markup_percent(fn_call[1].avg, to_float(fn_call[1].cost)) # None =>
          /\ (fn_result[1] = "Tier1")
               <=> (5 * CallMarkup[2] <= CallMarkup[1] /\ CallMarkup[1] < 10 * CallMarkup[2])
          /\ (fn_result[1] = "Tier2") <=> (10 * CallMarkup[2] <= CallMarkup[1])
          /\ (fn_result[1] = "None") <=> (CallMarkup[1] < 5 * CallMarkup[2]))
    /\ (AverageOverHundred(10499) => fn_result[1] = "None")
    /\ (AverageOverHundred(10500) => fn_result[1] = "Tier1")
    /\ (AverageOverHundred(10999) => fn_result[1] = "Tier1")
    /\ (AverageOverHundred(11000) => fn_result[1] = "Tier2")
    /\ (fn_call[1].cost = Some(TxtZero) => fn_result[1] = "None")

\* the average 105.00 over the cost 100, a markup of exactly 5, is in Tier1
C16_Witness ==
  /\ fn_result = Some("Tier1")
  /\ AverageOverHundred(10500)
  /\ CallMarkup[1] = 5 * CallMarkup[2]

\* the digits of a price text, in order
DigitsOf(price_text) == IF price_text = None THEN <<>> ELSE RemoveOutside(price_text[1], Digits)

\* C17: the price of a candidate is the integer made of all digits of its
\* price text ("12", a non-breaking space, "500" and a currency sign give
\* 12500), it is absent when the text has no digit, and no price text makes
\* the extraction raise.
C17_PriceIsConcatenatedDigits ==
  fn_result # None =>
    /\ ~fn_result[1].raised
    /\ (DigitsOf(fn_call[1]) = <<>> => fn_result[1].val = None)
    /\ (DigitsOf(fn_call[1]) # <<>>
          => fn_result[1].val = Some(DecimalValue(DigitsOf(fn_call[1]))))
    /\ (fn_call[1] = Some(TxtPrice) => fn_result[1].val = Some(12500))

\* the runs of token characters of the normalized "brand name" text
RunsOfCall == FindRuns(normalize_text(fn_call[1].brand \o <<" ">> \o fn_call[1].name), TokenChars)

\* the place of the first occurrence of t in runs
FirstPlace(t, runs) == CHOOSE i \in 1..Len(runs) : runs[i] = t /\ \A j \in 1..(i - 1) : runs[j] # t

InFirstOccurrenceOrder(r, runs) ==
  /\ \A i \in 1..Len(r) : \E k \in 1..Len(runs) : runs[k] = r[i]
  /\ \A i, j \in 1..Len(r) : i < j => FirstPlace(r[i], runs) < FirstPlace(r[j], runs)

WellFormedTokens(r) ==
  /\ \A i, j \in 1..Len(r) : i # j => r[i] # r[j]
  /\ \A i \in 1..Len(r) : r[i] # <<>> /\ Len(r[i]) > 1 /\ r[i] \notin STOPWORDS_RU

\* C18: the token sequence of a brand and a name has no duplicates, no empty
\* strings, no single-character entries and no stop-words, lists its tokens
\* in the order of their first occurrence in the normalized text, and a
\* second call on the same input returns the same sequence.
C18_TokensWellFormedAndStable ==
  /\ \A c \in 1..Len(fn_result) :
       /\ WellFormedTokens(fn_result[c])
       /\ InFirstOccurrenceOrder(fn_result[c], RunsOfCall)
  /\ Len(fn_result) = 2 => fn_result[1] = fn_result[2]

\* two calls made on a text that repeats a token and holds a stop-word and a
\* single character, with two tokens returned
C18_Witness ==
  /\ Len(fn_result) = 2
  /\ Len(fn_result[1]) >= 2
  /\ \E i, j \in 1..Len(RunsOfCall) :
       i < j /\ RunsOfCall[i] = RunsOfCall[j] /\ Len(RunsOfCall[i]) > 1
  /\ \E i \in 1..Len(RunsOfCall) : RunsOfCall[i] \in STOPWORDS_RU
  /\ \E i \in 1..Len(RunsOfCall) : Len(RunsOfCall[i]) = 1 /\ RunsOfCall[i] \notin STOPWORDS_RU

\* C19: normalizing is idempotent: for every text, with punctuation,
\* backslashes and runs of whitespace, normalizing the normalized text gives
\* the normalized text again.
C19_NormalizeIdempotent ==
  Len(fn_result) = 2 => fn_result[2] = fn_result[1]

\* the workers that were launched and whose callbacks are not all handled yet
Running == {w \in Threads : wk[w].pc # "unborn" /\ ~Delivered(w)}

\* C20: at most one batch worker runs at any time: between the launch of a
\* worker by Start and the handling of its completion callbacks, no UI action
\* (choosing a file included) lets Start launch a second worker.
C20_AtMostOneWorker == Cardinality(Running) <= 1

Terminal == {"after_ok", "after_err"}

\* every after_final in the queue comes after the terminal callback of its
\* batch, which is earlier in the queue or was handled already
TerminalBeforeFinal ==
  \A i \in 1..Len(task_queue) :
    task_queue[i].name = "after_final" =>
      \/ \E j \in 1..(i - 1) :
           task_queue[j].w = task_queue[i].w /\ task_queue[j].name \in Terminal
      \/ Len(shown[task_queue[i].w]) = 1

TokenlessRowDone(w) ==
  /\ wk[w].cur.exit \notin {"none", "empty_row"}
  /\ wk[w].cur.info.tokens = <<>>

\* C22: a row that is not blank but whose brand and name give no token (only
\* stop-words or single characters) is still fetched and paced, and always
\* ends with an all-absent result, no candidate reaching the threshold.
C22_TokenlessRowAllAbsent ==
  \A w \in Threads :
    TokenlessRowDone(w) =>
      /\ Count(wk[w].cur.steps, "fetch") = 1
      /\ Count(wk[w].cur.steps, "sleep") = 1
      /\ wk[w].cur.written = Some(AllAbsent)

\* C22 for the rows whose extraction does not raise
C22_TokenlessRowAllAbsentUnlessRaised ==
  \A w \in Threads :
    (TokenlessRowDone(w) /\ ~wk[w].cur.raised) =>
      /\ Count(wk[w].cur.steps, "fetch") = 1
      /\ Count(wk[w].cur.steps, "sleep") = 1
      /\ wk[w].cur.written = Some(AllAbsent)

=============================================================================
